---- MODULE Spec2Model ----
(***************************************************************************)
(* Model of loadum's JsonDumper (json/src/json_dumper.rs): the event       *)
(* driven JSON renderer with its stack of DumperState frames, its          *)
(* indentation counter and the bytes it writes to its sink; of its string  *)
(* escaping, applied to strings of a bounded alphabet; and of the YAML     *)
(* Tokenizer (yaml/src/token.rs) stepping through a bounded source.        *)
(*                                                                         *)
(* Text is modelled as a sequence of Unicode code points, so that the      *)
(* sink contents, the escaping and the indentation can be compared         *)
(* character for character.                                                *)
(***************************************************************************)
EXTENDS Integers, Sequences, FiniteSets, TLC

VARIABLES
    state,              \* JsonDumper.state : Vec<DumperState>
    indentation_level,  \* JsonDumper.indentation_level : u32, as the signed
                        \* value of its 32 bits (0 - 1 stands for 2^32 - 1)
    out,                \* everything the sink (JsonDumper.write) has received
    result,             \* outcome of the last emit: "None", "Ok", "Err", "Panic"
    events,             \* the events passed to emit so far, in order
    io_errors,          \* number of emit calls that returned a sink error
    unescaped,          \* escape_string's argument s : &str
    escaped,            \* what escape_string(s) returned, once it was called
    source,             \* the text the Tokenizer's scanner reads
    cursor,             \* Tokenizer.scanner's cursor, a byte offset
    start,              \* Tokenizer.start
    end,                \* Tokenizer.end
    current,            \* Tokenizer.current : Token
    outcome,            \* outcome of the last advance: "None", "Ok", "Panic"
    advances            \* number of advance calls so far

dumper_vars == <<state, indentation_level, out, result, events, io_errors>>
escape_vars == <<unescaped, escaped>>
tokenizer_vars == <<source, cursor, start, end, current, outcome, advances>>

vars == <<dumper_vars, escape_vars, tokenizer_vars>>

----------------------------------------------------------------------------
(* Bounds of the exploration *)

MaxEvents == 8      \* emit calls per behaviour on a sink that never fails
MaxEventsIO == 5    \* emit calls per behaviour on a sink that may fail
MaxBudget == 2      \* a failing sink accepts 0..MaxBudget more characters
MaxFailures == 1    \* sink failures per behaviour
MaxIndent == 12     \* longest indentation an unlimited sink is asked to take
MaxStringLen == 3   \* longest string escape_string is called on
MaxSourceLen == 5   \* longest source the Tokenizer reads
MaxAdvances == 6    \* advance calls per behaviour

----------------------------------------------------------------------------
(* Characters *)

Tab == 9
Newline == 10
CarriageReturn == 13
Space == 32
Quote == 34
Apostrophe == 39
Comma == 44
Colon == 58
LBracket == 91
Backslash == 92
RBracket == 93
LBrace == 123
RBrace == 125

\* u32::MAX in the signed reading of the 32 bits
U32Max == 0 - 1

Unlimited == 0 - 1

----------------------------------------------------------------------------
(* loadum::value::Value and loadum::event::Event *)

Null == [tag |-> "Null"]
Boolean(b) == [tag |-> "Boolean", b |-> b]
Number(n) == [tag |-> "Number", n |-> n]
String(s) == [tag |-> "String", s |-> s]

\* the scalar payloads the driver draws from: a keyword, a number and a
\* string that needs escaping
Values == {Null, Number(1), String(<<34>>)}

DocumentStart == [type |-> "DocumentStart"]
DocumentEnd == [type |-> "DocumentEnd"]
MapStart == [type |-> "MapStart"]
MapEnd == [type |-> "MapEnd"]
ListStart == [type |-> "ListStart"]
ListEnd == [type |-> "ListEnd"]
MapKey(v) == [type |-> "MapKey", value |-> v]
Literal(v) == [type |-> "Literal", value |-> v]

DumperState == {"Initial", "WantMapping", "MapInitial", "MapHasKey",
                "MapHasValue", "ListInitial", "ListHasValue"}

----------------------------------------------------------------------------
(* The sink.  A run of one emit call is a record m: the dumper's fields,   *)
(* the sink contents, the number of characters the sink still accepts in   *)
(* this call (Unlimited: every write succeeds), and how the call ended.    *)

Last(s) == s[Len(s)]
Pop(s) == SubSeq(s, 1, Len(s) - 1)

Stopped(m) == m.err \/ m.panic \/ m.huge

\* write_all without the `?`: a failure of the sink is dropped
write_all_unchecked(m, bytes) ==
    IF Stopped(m) THEN m
    ELSE IF m.budget = Unlimited THEN [m EXCEPT !.out = @ \o bytes]
    ELSE IF Len(bytes) <= m.budget
         THEN [m EXCEPT !.out = @ \o bytes, !.budget = @ - Len(bytes)]
    ELSE [m EXCEPT !.out = @ \o SubSeq(bytes, 1, m.budget), !.budget = 0]

\* std::io::Write::write_all followed by `?`: all characters are written, or
\* the sink takes the ones it still accepts and the call returns Err
write_all(m, bytes) ==
    IF Stopped(m) THEN m
    ELSE IF m.budget = Unlimited THEN [m EXCEPT !.out = @ \o bytes]
    ELSE IF Len(bytes) <= m.budget
         THEN [m EXCEPT !.out = @ \o bytes, !.budget = @ - Len(bytes)]
    ELSE [m EXCEPT !.out = @ \o SubSeq(bytes, 1, m.budget),
                   !.budget = 0, !.err = TRUE]

panic(m) == IF Stopped(m) THEN m ELSE [m EXCEPT !.panic = TRUE]

\* for _ in i..self.indentation_level
RECURSIVE indent_loop(_, _)
indent_loop(m, i) ==
    IF i = m.indentation_level \/ Stopped(m) THEN m
    ELSE indent_loop(write_all(m, <<Tab>>), i + 1)

\* JsonDumper::indent: one tab per indentation level, one write each.  An
\* indentation of more than MaxIndent tabs is followed only on a sink that
\* fails (huge marks the runs left out).
indent(m) ==
    IF Stopped(m) THEN m
    ELSE IF m.budget = Unlimited
            /\ (m.indentation_level < 0 \/ m.indentation_level > MaxIndent)
         THEN [m EXCEPT !.huge = TRUE]
    ELSE indent_loop(m, 0)

\* Vec::push
push(m, frame) == IF Stopped(m) THEN m ELSE [m EXCEPT !.state = Append(@, frame)]

\* Vec::pop: None on an empty vector, no panic
pop(m) ==
    IF Stopped(m) \/ m.state = <<>> THEN m ELSE [m EXCEPT !.state = Pop(@)]

\* *self.state.last_mut().unwrap() = frame
set_last(m, frame) ==
    IF Stopped(m) THEN m
    ELSE IF m.state = <<>> THEN panic(m)
    ELSE [m EXCEPT !.state[Len(m.state)] = frame]

\* self.indentation_level += 1 on a u32: a build with overflow checks panics
\* on overflow, one without wraps
increment(m) ==
    IF Stopped(m) THEN m
    ELSE IF m.indentation_level /= U32Max
         THEN [m EXCEPT !.indentation_level = @ + 1]
    ELSE IF m.wrap THEN [m EXCEPT !.indentation_level = 0]
    ELSE panic(m)

\* self.indentation_level -= 1 on a u32
decrement(m) ==
    IF Stopped(m) THEN m
    ELSE IF m.indentation_level /= 0
         THEN [m EXCEPT !.indentation_level = @ - 1]
    ELSE IF m.wrap THEN [m EXCEPT !.indentation_level = U32Max]
    ELSE panic(m)

\* assert_state!(self, pattern): panic unless the top frame matches
assert_state(m, expected) ==
    IF Stopped(m) THEN m
    ELSE IF m.state = <<>> THEN panic(m)
    ELSE IF Last(m.state) \notin expected THEN panic(m)
    ELSE m

----------------------------------------------------------------------------
(* Scalars *)

HexDigit(d) == IF d < 10 THEN 48 + d ELSE 87 + d

\* format!("{:04x}", c as u32)
Hex4(c) == << HexDigit((c \div 4096) % 16), HexDigit((c \div 256) % 16),
              HexDigit((c \div 16) % 16), HexDigit(c % 16) >>

IsControl(c) == c >= 0 /\ c <= 31

\* escape_char with format!("{:02x}") in place of format!("{:04x}")
escape_char_two_digits(c) ==
    IF c = Quote \/ c = Backslash THEN <<Backslash, c>>
    ELSE IF c = Tab THEN <<Backslash, 116>>
    ELSE IF c = Newline THEN <<Backslash, 110>>
    ELSE IF c = CarriageReturn THEN <<Backslash, 114>>
    ELSE IF IsControl(c)
    THEN <<Backslash, 117, HexDigit((c \div 16) % 16), HexDigit(c % 16)>>
    ELSE <<c>>

\* the second loop of escape_string, for one character
escape_char(c) ==
    IF c = Quote \/ c = Backslash THEN <<Backslash, c>>
    ELSE IF c = Tab THEN <<Backslash, 116>>
    ELSE IF c = Newline THEN <<Backslash, 110>>
    ELSE IF c = CarriageReturn THEN <<Backslash, 114>>
    ELSE IF IsControl(c) THEN <<Backslash, 117>> \o Hex4(c)
    ELSE <<c>>

RECURSIVE escape_all(_)
escape_all(s) ==
    IF s = <<>> THEN <<>> ELSE escape_char(s[1]) \o escape_all(Tail(s))

\* escape_string whose first loop does not look for the backslash
escape_string_backslash_unseen(s) ==
    LET must_escape ==
            \E i \in 1..Len(s) : IsControl(s[i]) \/ s[i] = Quote
    IN IF ~must_escape THEN s ELSE escape_all(s)

\* escape_string: the input itself unless some character must be escaped
escape_string(s) ==
    LET must_escape ==
            \E i \in 1..Len(s) :
                IsControl(s[i]) \/ s[i] = Quote \/ s[i] = Backslash
    IN IF ~must_escape THEN s ELSE escape_all(s)

RECURSIVE Digits(_)
Digits(n) ==
    IF n < 10 THEN <<48 + n>> ELSE Digits(n \div 10) \o <<48 + (n % 10)>>

\* f64::to_string of a non-negative integer-valued number: its decimal
\* digits, without a fraction
NumberToString(n) == Digits(n)

\* JsonDumper::emit_value
emit_value(m, value) ==
    IF value.tag = "String"
    THEN write_all(write_all(write_all(m, <<Quote>>), escape_string(value.s)),
                   <<Quote>>)
    ELSE IF value.tag = "Number" THEN write_all(m, NumberToString(value.n))
    ELSE IF value.tag = "Boolean"
    THEN write_all(m, IF value.b THEN <<116, 114, 117, 101>>
                                 ELSE <<102, 97, 108, 115, 101>>)
    ELSE write_all(m, <<110, 117, 108, 108>>)

----------------------------------------------------------------------------
(* Separators and indentation *)

\* mutant of emit_comma_if_needed: no separator between the entries of a map
emit_comma_if_needed_list_only(m) ==
    IF Stopped(m) THEN m
    ELSE IF m.state = <<>> THEN panic(m)
    ELSE LET last_value == Last(m.state)
             m1 == IF last_value = "MapHasKey" THEN set_last(m, "MapHasValue")
                   ELSE IF last_value = "ListInitial"
                        THEN set_last(m, "ListHasValue")
                   ELSE IF last_value \in {"MapInitial", "MapHasValue",
                                           "ListHasValue", "WantMapping"}
                        THEN m
                   ELSE panic(m)
             write_comma == last_value = "ListHasValue"
             indent_needed == last_value \in {"ListInitial", "ListHasValue"}
             m2 == IF write_comma THEN write_all(m1, <<Comma, Newline>>) ELSE m1
         IN IF indent_needed THEN indent(m2) ELSE m2

\* JsonDumper::emit_comma_if_needed
emit_comma_if_needed(m) ==
    IF Stopped(m) THEN m
    ELSE IF m.state = <<>> THEN panic(m)
    ELSE LET last_value == Last(m.state)
             m1 == IF last_value = "MapHasKey" THEN set_last(m, "MapHasValue")
                   ELSE IF last_value = "ListInitial"
                        THEN set_last(m, "ListHasValue")
                   ELSE IF last_value \in {"MapInitial", "MapHasValue",
                                           "ListHasValue", "WantMapping"}
                        THEN m
                   ELSE panic(m)
             write_comma == last_value \in {"MapHasValue", "ListHasValue"}
             indent_needed == last_value \in {"ListInitial", "ListHasValue"}
             m2 == IF write_comma THEN write_all(m1, <<Comma, Newline>>) ELSE m1
         IN IF indent_needed THEN indent(m2) ELSE m2

\* mutant of emit_indent_if_necessary: only a list counts as enclosing frame
emit_indent_if_necessary_in_list(m) ==
    IF Stopped(m) THEN m
    ELSE IF m.state = <<>> THEN panic(m)
    ELSE IF Last(m.state) = "ListHasValue"
         THEN indent(write_all(m, <<Newline>>))
    ELSE m

\* JsonDumper::emit_indent_if_necessary: looks at the frame that is on top
\* when it is called
emit_indent_if_necessary(m) ==
    IF Stopped(m) THEN m
    ELSE IF m.state = <<>> THEN panic(m)
    ELSE IF Last(m.state) \in {"ListHasValue", "MapHasValue"}
         THEN indent(write_all(m, <<Newline>>))
    ELSE m

----------------------------------------------------------------------------
(* JsonDumper::emit, one operator per match arm *)

\* mutant of emit_DocumentStart: the state is not checked
emit_DocumentStart_unchecked(m) == push(m, "WantMapping")

emit_DocumentStart(m) == push(assert_state(m, {"Initial"}), "WantMapping")

\* DocumentEnd that checks the frame on top and leaves it there
emit_DocumentEnd_unpopped(m) == assert_state(m, {"WantMapping"})

emit_DocumentEnd(m) == assert_state(pop(m), {"Initial"})

\* MapStart that pushes the map's frame without emit_comma_if_needed
emit_MapStart_unmarked(m) ==
    LET m1 == assert_state(m, {"WantMapping", "MapHasKey", "ListInitial",
                               "ListHasValue"})
        m3 == push(m1, "MapInitial")
        m4 == write_all(m3, <<LBrace, Newline>>)
    IN increment(m4)

emit_MapStart(m) ==
    LET m1 == assert_state(m, {"WantMapping", "MapHasKey", "ListInitial",
                               "ListHasValue"})
        m2 == emit_comma_if_needed(m1)
        m3 == push(m2, "MapInitial")
        m4 == write_all(m3, <<LBrace, Newline>>)
    IN increment(m4)

\* mutant of emit_MapEnd: the indentation is written before the level drops
emit_MapEnd_late_decrement(m) ==
    LET m1 == assert_state(m, {"MapInitial", "MapHasValue"})
        m2 == pop(m1)
        m3 == write_all(m2, <<Newline>>)
        m4 == indent(m3)
        m5 == decrement(m4)
    IN write_all(m5, <<RBrace>>)

\* mutant of emit_MapEnd: any open collection may be closed by MapEnd
emit_MapEnd_any(m) ==
    LET m1 == assert_state(m, {"MapInitial", "MapHasValue", "ListInitial",
                               "ListHasValue"})
        m2 == pop(m1)
        m3 == decrement(m2)
        m4 == write_all(m3, <<Newline>>)
        m5 == indent(m4)
    IN write_all(m5, <<RBrace>>)

emit_MapEnd(m) ==
    LET m1 == assert_state(m, {"MapInitial", "MapHasValue"})
        m2 == pop(m1)
        m3 == decrement(m2)
        m4 == write_all(m3, <<Newline>>)
        m5 == indent(m4)
    IN write_all(m5, <<RBrace>>)

\* mutant of emit_MapKey: a key is accepted right after a key
emit_MapKey_after_key(m, value) ==
    LET m1 == assert_state(m, {"MapInitial", "MapHasKey", "MapHasValue"})
        m2 == emit_comma_if_needed(m1)
        m3 == set_last(m2, "MapHasKey")
        m4 == indent(m3)
        m5 == emit_value(m4, value)
    IN write_all(m5, <<Colon, Space>>)

emit_MapKey(m, value) ==
    LET m1 == assert_state(m, {"MapInitial", "MapHasValue"})
        m2 == emit_comma_if_needed(m1)
        m3 == set_last(m2, "MapHasKey")
        m4 == indent(m3)
        m5 == emit_value(m4, value)
    IN write_all(m5, <<Colon, Space>>)

\* mutant of emit_ListStart: a list is accepted as the top-level value
emit_ListStart_top(m) ==
    LET m1 == assert_state(m, {"WantMapping", "MapHasKey", "ListInitial",
                               "ListHasValue"})
        m2 == emit_comma_if_needed(m1)
        m3 == write_all(m2, <<LBracket, Newline>>)
        m4 == increment(m3)
    IN push(m4, "ListInitial")

\* ListStart that leaves the indentation level as it is
emit_ListStart_level_kept(m) ==
    LET m1 == assert_state(m, {"MapHasKey", "ListInitial", "ListHasValue"})
        m2 == emit_comma_if_needed(m1)
        m3 == write_all(m2, <<LBracket, Newline>>)
    IN push(m3, "ListInitial")

emit_ListStart(m) ==
    LET m1 == assert_state(m, {"MapHasKey", "ListInitial", "ListHasValue"})
        m2 == emit_comma_if_needed(m1)
        m3 == write_all(m2, <<LBracket, Newline>>)
        m4 == increment(m3)
    IN push(m4, "ListInitial")

\* mutant of emit_ListEnd: the list's own frame decides about the newline
emit_ListEnd_own_frame(m) ==
    LET m1 == assert_state(m, {"ListInitial", "ListHasValue"})
        m2 == decrement(m1)
        m3 == emit_indent_if_necessary(m2)
        m4 == pop(m3)
    IN write_all(m4, <<RBracket>>)

emit_ListEnd(m) ==
    LET m1 == assert_state(m, {"ListInitial", "ListHasValue"})
        m2 == pop(m1)
        m3 == decrement(m2)
        m4 == emit_indent_if_necessary(m3)
    IN write_all(m4, <<RBracket>>)

emit_Literal(m, value) ==
    LET m1 == assert_state(m, {"MapHasKey", "ListHasValue", "ListInitial"})
        m2 == emit_comma_if_needed(m1)
    IN emit_value(m2, value)

\* JsonDumper::emit
emit(m, event) ==
    CASE event.type = "DocumentStart" -> emit_DocumentStart(m)
      [] event.type = "DocumentEnd" -> emit_DocumentEnd(m)
      [] event.type = "MapStart" -> emit_MapStart(m)
      [] event.type = "MapEnd" -> emit_MapEnd(m)
      [] event.type = "MapKey" -> emit_MapKey(m, event.value)
      [] event.type = "ListStart" -> emit_ListStart(m)
      [] event.type = "ListEnd" -> emit_ListEnd(m)
      [] event.type = "Literal" -> emit_Literal(m, event.value)

----------------------------------------------------------------------------
(* The state machine: a driver calls emit with one event after another.    *)
(* A panic ends the run.  An emit that returned a sink error leaves the    *)
(* dumper as it was at the failed write, and nothing in the code keeps the *)
(* driver from calling emit again.                                         *)

\* JsonDumper::new
JsonDumper_new ==
    /\ state = <<"Initial">>
    /\ indentation_level = 0
    /\ out = <<>>
    /\ result = "None"
    /\ events = <<>>
    /\ io_errors = 0

\* escape_string is not called on its own
NoEscape == unescaped = <<>> /\ escaped = <<>>

\* no Tokenizer is at work
NoTokenizer ==
    /\ source = <<>>
    /\ cursor = 0
    /\ start = 0
    /\ end = 0
    /\ current = "Initial"
    /\ outcome = "None"
    /\ advances = 0

Init == JsonDumper_new /\ NoEscape /\ NoTokenizer

NoFailure == {Unlimited}
FailingSink == {Unlimited} \cup (0..MaxBudget)

\* one call of emit(event) on a sink that accepts `budget` more characters,
\* in a build that wraps (or panics) on integer overflow
Emit(event, budget, wrap) ==
    /\ budget /= Unlimited => io_errors < MaxFailures
    /\ LET m == emit([state |-> state,
                      indentation_level |-> indentation_level,
                      out |-> out, budget |-> budget, wrap |-> wrap,
                      err |-> FALSE, panic |-> FALSE, huge |-> FALSE], event)
       IN /\ ~m.huge
          /\ state' = m.state
          /\ indentation_level' = m.indentation_level
          /\ out' = m.out
          /\ result' = IF m.panic THEN "Panic" ELSE IF m.err THEN "Err" ELSE "Ok"
          /\ events' = Append(events, event)
          /\ io_errors' = IF m.err THEN io_errors + 1 ELSE io_errors
          /\ UNCHANGED <<escape_vars, tokenizer_vars>>

Step(event, sinks) ==
    \E budget \in sinks, wrap \in BOOLEAN : Emit(event, budget, wrap)

\* the driver may call emit again: no panic so far, and the bound on the
\* number of calls is not reached
Running(max_events) == result /= "Panic" /\ Len(events) < max_events

EmitDocumentStart ==
    /\ Running(MaxEvents)
    /\ Step(DocumentStart, NoFailure)

EmitDocumentEnd ==
    /\ Running(MaxEvents)
    /\ Step(DocumentEnd, NoFailure)

EmitMapStart ==
    /\ Running(MaxEvents)
    /\ Step(MapStart, NoFailure)

EmitMapEnd ==
    /\ Running(MaxEvents)
    /\ Step(MapEnd, NoFailure)

EmitMapKey ==
    /\ Running(MaxEvents)
    /\ \E v \in Values : Step(MapKey(v), NoFailure)

EmitListStart ==
    /\ Running(MaxEvents)
    /\ Step(ListStart, NoFailure)

EmitListEnd ==
    /\ Running(MaxEvents)
    /\ Step(ListEnd, NoFailure)

EmitLiteral ==
    /\ Running(MaxEvents)
    /\ \E v \in Values : Step(Literal(v), NoFailure)

Next ==
    \/ EmitDocumentStart
    \/ EmitDocumentEnd
    \/ EmitMapStart
    \/ EmitMapEnd
    \/ EmitMapKey
    \/ EmitListStart
    \/ EmitListEnd
    \/ EmitLiteral

\* every sink write succeeds
Spec == Init /\ [][Next]_vars

\* The same driver on a sink that may fail: a call of emit may find the sink
\* accepting only 0..MaxBudget more characters.

FailingDocumentStart ==
    /\ Running(MaxEventsIO)
    /\ Step(DocumentStart, FailingSink)

FailingDocumentEnd ==
    /\ Running(MaxEventsIO)
    /\ Step(DocumentEnd, FailingSink)

FailingMapStart ==
    /\ Running(MaxEventsIO)
    /\ Step(MapStart, FailingSink)

FailingMapEnd ==
    /\ Running(MaxEventsIO)
    /\ Step(MapEnd, FailingSink)

FailingMapKey ==
    /\ Running(MaxEventsIO)
    /\ \E v \in Values : Step(MapKey(v), FailingSink)

FailingListStart ==
    /\ Running(MaxEventsIO)
    /\ Step(ListStart, FailingSink)

FailingListEnd ==
    /\ Running(MaxEventsIO)
    /\ Step(ListEnd, FailingSink)

FailingLiteral ==
    /\ Running(MaxEventsIO)
    /\ \E v \in Values : Step(Literal(v), FailingSink)

NextIO ==
    \/ FailingDocumentStart
    \/ FailingDocumentEnd
    \/ FailingMapStart
    \/ FailingMapEnd
    \/ FailingMapKey
    \/ FailingListStart
    \/ FailingListEnd
    \/ FailingLiteral

\* sink writes may fail
SpecIO == Init /\ [][NextIO]_vars

----------------------------------------------------------------------------
(* What the event log says, independently of the dumper's own frames.  In  *)
(* a state that is not a panic every event of the log but the last was     *)
(* accepted.                                                               *)

ValueStart == {"Literal", "MapStart", "ListStart"}

Count(log, type) == Cardinality({k \in 1..Len(log) : log[k].type = type})

Mismatch == <<"Mismatch">>

\* the kinds of the collections a log leaves open, outermost first; Mismatch
\* if some end event does not close a collection of its own kind
RECURSIVE Open(_)
Open(log) ==
    IF log = <<>> THEN <<>>
    ELSE LET before == Open(Pop(log))
             e == Last(log)
         IN IF before = Mismatch THEN Mismatch
            ELSE IF e.type = "MapStart" THEN Append(before, "Map")
            ELSE IF e.type = "ListStart" THEN Append(before, "List")
            ELSE IF e.type = "MapEnd"
                 THEN IF before /= <<>> /\ Last(before) = "Map"
                      THEN Pop(before) ELSE Mismatch
            ELSE IF e.type = "ListEnd"
                 THEN IF before /= <<>> /\ Last(before) = "List"
                      THEN Pop(before) ELSE Mismatch
            ELSE before

\* number of maps and lists open after the log
Depth(log) == Len(Open(log))

\* number of maps and lists open when event k of the log is emitted
DepthBefore(log, k) == Depth(SubSeq(log, 1, k - 1))

\* a document is open: a DocumentStart has no DocumentEnd yet
DocOpen(log) == Count(log, "DocumentStart") > Count(log, "DocumentEnd")

\* kind of the innermost open collection, "None" outside every collection
Innermost(log) == IF Depth(log) = 0 THEN "None" ELSE Last(Open(log))

\* index of the event that opened the innermost open collection
Opening(log) ==
    CHOOSE k \in 1..Len(log) :
        /\ log[k].type \in {"MapStart", "ListStart"}
        /\ DepthBefore(log, k) = Depth(log) - 1
        /\ \A j \in (k + 1)..Len(log) :
               log[j].type \in {"MapStart", "ListStart"}
                   => DepthBefore(log, j) /= Depth(log) - 1

\* the events emitted directly inside the innermost open collection: its
\* keys and the first events of its values
Direct(log) ==
    {k \in (Opening(log) + 1)..Len(log) : DepthBefore(log, k) = Depth(log)}

\* number of children the innermost open collection has so far: entries of
\* a map (one per key), elements of a list
Children(log) ==
    IF Innermost(log) = "Map"
    THEN Cardinality({k \in Direct(log) : log[k].type = "MapKey"})
    ELSE Cardinality({k \in Direct(log) : log[k].type \in ValueStart})

\* event k of the log adds a child to the collection it is emitted in
AddsChild(log, k) ==
    LET before == SubSeq(log, 1, k - 1)
    IN \/ Innermost(before) = "Map" /\ log[k].type = "MapKey"
       \/ Innermost(before) = "List" /\ log[k].type \in ValueStart

\* event k adds the second or a later child
AddsLaterChild(log, k) ==
    AddsChild(log, k) /\ Children(SubSeq(log, 1, k - 1)) >= 1

----------------------------------------------------------------------------
(* Text helpers *)

Tabs(n) == [i \in 1..n |-> Tab]

HasPrefix(s, p) == Len(p) <= Len(s) /\ SubSeq(s, 1, Len(p)) = p

HasSuffix(s, p) ==
    Len(p) <= Len(s) /\ SubSeq(s, Len(s) - Len(p) + 1, Len(s)) = p

DropPrefix(s, n) == SubSeq(s, n + 1, Len(s))

CommaCount(s) == Cardinality({i \in 1..Len(s) : s[i] = Comma})

\* number of tab characters s starts with
RECURSIVE LeadingTabs(_)
LeadingTabs(s) ==
    IF s /= <<>> /\ s[1] = Tab THEN 1 + LeadingTabs(Tail(s)) ELSE 0

\* what the step wrote: out' is out followed by Written
Written == DropPrefix(out', Len(out))

\* the step was a call of emit that returned Ok
Accepted == result' = "Ok"

----------------------------------------------------------------------------
(* JSON text, as serde_json::from_str of tests::assert_valid_json reads    *)
(* it: a recogniser for the grammar of RFC 8259.  Each operator takes the  *)
(* text and a position and yields the position after what it read, or      *)
(* NoParse.                                                                *)

NoParse == 0 - 1

\* the character at position i, EndOfText beyond the text
EndOfText == 0 - 1
At(s, i) == IF i >= 1 /\ i <= Len(s) THEN s[i] ELSE EndOfText

IsWhitespace(c) == c \in {Space, Tab, Newline, CarriageReturn}
IsDigit(c) == c >= 48 /\ c <= 57
IsHexDigit(c) == IsDigit(c) \/ (c >= 97 /\ c <= 102) \/ (c >= 65 /\ c <= 70)

RECURSIVE SkipWhitespace(_, _)
SkipWhitespace(s, i) ==
    IF IsWhitespace(At(s, i)) THEN SkipWhitespace(s, i + 1) ELSE i

RECURSIVE SkipDigits(_, _)
SkipDigits(s, i) == IF IsDigit(At(s, i)) THEN SkipDigits(s, i + 1) ELSE i

\* number = [ "-" ] int [ "." 1*DIGIT ] [ ("e" / "E") [ "+" / "-" ] 1*DIGIT ]
JsonNumber(s, i) ==
    LET i1 == IF At(s, i) = 45 THEN i + 1 ELSE i
        i2 == IF At(s, i1) = 48 THEN i1 + 1
              ELSE IF IsDigit(At(s, i1)) THEN SkipDigits(s, i1) ELSE NoParse
        i3 == IF i2 = NoParse THEN NoParse
              ELSE IF At(s, i2) /= 46 THEN i2
              ELSE IF IsDigit(At(s, i2 + 1)) THEN SkipDigits(s, i2 + 1)
              ELSE NoParse
        i4 == IF At(s, i3 + 1) \in {43, 45} THEN i3 + 2 ELSE i3 + 1
    IN IF i3 = NoParse THEN NoParse
       ELSE IF At(s, i3) \notin {69, 101} THEN i3
       ELSE IF IsDigit(At(s, i4)) THEN SkipDigits(s, i4)
       ELSE NoParse

\* the characters of a string after its opening quote, through the closing one
RECURSIVE JsonStringBody(_, _)
JsonStringBody(s, i) ==
    LET c == At(s, i)
        e == At(s, i + 1)
    IN IF c = EndOfText THEN NoParse
       ELSE IF c = Quote THEN i + 1
       ELSE IF c = Backslash
            THEN IF e \in {Quote, Backslash, 47, 98, 102, 110, 114, 116}
                 THEN JsonStringBody(s, i + 2)
                 ELSE IF e = 117 /\ \A j \in 2..5 : IsHexDigit(At(s, i + j))
                      THEN JsonStringBody(s, i + 6)
                 ELSE NoParse
       ELSE IF IsControl(c) THEN NoParse
       ELSE JsonStringBody(s, i + 1)

JsonString(s, i) ==
    IF At(s, i) = Quote THEN JsonStringBody(s, i + 1) ELSE NoParse

JsonKeyword(s, i, word) ==
    IF \A j \in 1..Len(word) : At(s, i + j - 1) = word[j]
    THEN i + Len(word) ELSE NoParse

RECURSIVE JsonValue(_, _)
RECURSIVE JsonMembers(_, _)
RECURSIVE JsonElements(_, _)

\* value = object / array / string / number / "null" / "true" / "false"
JsonValue(s, i) ==
    LET c == At(s, i)
        j == SkipWhitespace(s, i + 1)
    IN IF c = LBrace
       THEN IF At(s, j) = RBrace THEN j + 1 ELSE JsonMembers(s, j)
       ELSE IF c = LBracket
       THEN IF At(s, j) = RBracket THEN j + 1 ELSE JsonElements(s, j)
       ELSE IF c = Quote THEN JsonString(s, i)
       ELSE IF c = 110 THEN JsonKeyword(s, i, <<110, 117, 108, 108>>)
       ELSE IF c = 116 THEN JsonKeyword(s, i, <<116, 114, 117, 101>>)
       ELSE IF c = 102 THEN JsonKeyword(s, i, <<102, 97, 108, 115, 101>>)
       ELSE IF c = 45 \/ IsDigit(c) THEN JsonNumber(s, i)
       ELSE NoParse

\* member *( "," member ) "}" with member = string ":" value
JsonMembers(s, i) ==
    LET key == JsonString(s, i)
        colon == SkipWhitespace(s, key)
        value == JsonValue(s, SkipWhitespace(s, colon + 1))
        after == SkipWhitespace(s, value)
    IN IF key = NoParse THEN NoParse
       ELSE IF At(s, colon) /= Colon THEN NoParse
       ELSE IF value = NoParse THEN NoParse
       ELSE IF At(s, after) = Comma
            THEN JsonMembers(s, SkipWhitespace(s, after + 1))
       ELSE IF At(s, after) = RBrace THEN after + 1
       ELSE NoParse

\* value *( "," value ) "]"
JsonElements(s, i) ==
    LET value == JsonValue(s, i)
        after == SkipWhitespace(s, value)
    IN IF value = NoParse THEN NoParse
       ELSE IF At(s, after) = Comma
            THEN JsonElements(s, SkipWhitespace(s, after + 1))
       ELSE IF At(s, after) = RBracket THEN after + 1
       ELSE NoParse

\* the text is exactly one JSON value, with whitespace around it at most
IsJson(s) ==
    LET value == JsonValue(s, SkipWhitespace(s, 1))
    IN value /= NoParse /\ SkipWhitespace(s, value) = Len(s) + 1

\* the event the step passed to emit
Event == Last(events')

----------------------------------------------------------------------------
(* Claims.  Under Spec every sink write succeeds, so a call of emit either *)
(* returns Ok (the event is accepted) or panics (the event is rejected).   *)

\* C1: exactly one top-level value per document: once a document is open and
\* its top-level value is complete, DocumentEnd is the only event emit
\* accepts; a second top-level value is rejected.
C1_OneTopLevelValue ==
    [][(/\ DocOpen(events)
        /\ Depth(events) = 0
        /\ Last(events).type /= "DocumentStart")
           => (Accepted <=> Event.type = "DocumentEnd")]_vars

MapFrames == {"MapInitial", "MapHasKey", "MapHasValue"}

\* the direct events of the innermost open map alternate: key, value, key, ...
Alternates(log) ==
    \A k \in Direct(log) :
        (log[k].type = "MapKey")
            <=> (Cardinality({j \in Direct(log) : j <= k}) % 2 = 1)

\* C4: in a map frame keys and values alternate: MapKey is accepted only in
\* MapInitial or MapHasValue, a value-producing event only in MapHasKey, MapEnd
\* only in MapInitial or MapHasValue; every other event is rejected by a
\* panic before any byte is written; so in the log of accepted events the
\* keys and the values of a map alternate, and a map is closed only after a
\* value or while empty.
C4_KeysAndValuesAlternate ==
    [][Last(state) \in MapFrames =>
        LET top == Last(state)
        IN /\ Accepted <=>
                \/ Event.type = "MapKey" /\ top \in {"MapInitial", "MapHasValue"}
                \/ Event.type \in ValueStart /\ top = "MapHasKey"
                \/ Event.type = "MapEnd" /\ top \in {"MapInitial", "MapHasValue"}
           /\ ~Accepted => result' = "Panic" /\ out' = out
           /\ Innermost(events) = "Map"
           /\ Accepted /\ Event.type /= "MapEnd" => Alternates(events')
           /\ Accepted /\ Event.type = "MapEnd"
                 => Alternates(events) /\ Cardinality(Direct(events)) % 2 = 0
      ]_vars

\* a key emitted right after the second key of a map was rejected
C4_Witness ==
    /\ Len(events) >= 2
    /\ result = "Panic"
    /\ Last(events).type = "MapKey"
    /\ events[Len(events) - 1].type = "MapKey"
    /\ Children(Pop(events)) = 2

\* C5: collection ends match their starts: an accepted MapEnd closes a
\* collection opened by MapStart, an accepted ListEnd one opened by ListStart
\* (the other combination is rejected), so a log accepted through DocumentEnd
\* is properly nested with as many MapEnd as MapStart and as many ListEnd as
\* ListStart.
C5_EndsMatchStarts ==
    (events /= <<>> /\ result = "Ok") =>
        /\ Last(events).type = "MapEnd" => Innermost(Pop(events)) = "Map"
        /\ Last(events).type = "ListEnd" => Innermost(Pop(events)) = "List"
        /\ Open(events) /= Mismatch
        /\ Last(events).type = "DocumentEnd" =>
              /\ Open(events) = <<>>
              /\ Count(events, "MapStart") = Count(events, "MapEnd")
              /\ Count(events, "ListStart") = Count(events, "ListEnd")

\* a MapEnd emitted inside a list was rejected
C5_Witness ==
    /\ events /= <<>>
    /\ result = "Panic"
    /\ Last(events).type = "MapEnd"
    /\ Innermost(Pop(events)) = "List"

\* C6: document bracketing: while no document is open (top frame Initial)
\* DocumentStart is the only event emit accepts; while one is open a further
\* DocumentStart is rejected; DocumentEnd is accepted only when a document is
\* open and every map and list opened in it has been closed.
C6_DocumentBracketing ==
    [][/\ (Last(state) = "Initial") <=> ~DocOpen(events)
       /\ ~DocOpen(events) => (Accepted <=> Event.type = "DocumentStart")
       /\ DocOpen(events) /\ Event.type = "DocumentStart" => ~Accepted
       /\ Event.type = "DocumentEnd"
             => (Accepted <=> DocOpen(events) /\ Depth(events) = 0)
      ]_vars

\* a DocumentEnd emitted while a map was still open was rejected
C6_Witness ==
    /\ events /= <<>>
    /\ result = "Panic"
    /\ Last(events).type = "DocumentEnd"
    /\ DocOpen(Pop(events))
    /\ Depth(Pop(events)) >= 1

\* every key of the log is a string
StringKeys(log) ==
    \A k \in 1..Len(log) : log[k].type = "MapKey" => log[k].value.tag = "String"

\* C3: for every event list that emit accepts between DocumentStart and
\* DocumentEnd (string keys, finite numbers, no sink failure) the sink holds
\* exactly one syntactically valid JSON value.
C3_OutputIsOneJsonValue ==
    (/\ result = "Ok"
     /\ events /= <<>>
     /\ Last(events).type = "DocumentEnd"
     /\ Count(events, "DocumentStart") = 1
     /\ StringKeys(events))
        => IsJson(out)

\* the step added a child to the innermost open collection
AddedChild == AddsChild(events', Len(events'))

\* the step added the second or a later child
AddedLaterChild == AddsLaterChild(events', Len(events'))

\* C7: comma placement: a map or list with N children gets max(N-1, 0)
\* separators ",\n" at its level: the separator is the first thing written
\* for child 2..N, before the child's indentation; nothing else writes a
\* comma (not the first child, not the end of the collection), so the
\* commas in the sink are as many as the second and later children.
C7_CommaPlacement ==
    [][Accepted =>
        /\ AddedLaterChild =>
              /\ HasPrefix(Written, <<Comma, Newline>> \o Tabs(Depth(events)))
              /\ CommaCount(Written) = 1
        /\ ~AddedLaterChild => CommaCount(Written) = 0
        /\ CommaCount(out') =
              Cardinality({k \in 1..Len(events') : AddsLaterChild(events', k)})
      ]_vars

\* a list inside a map got its third element: two separators so far
C7_Witness ==
    /\ result = "Ok"
    /\ events /= <<>>
    /\ Last(events).type = "Literal"
    /\ Innermost(events) = "List"
    /\ Children(events) = 3
    /\ CommaCount(out) = 2

\* what the step wrote after its separator, if it wrote one
AfterSeparator ==
    IF HasPrefix(Written, <<Comma, Newline>>) THEN DropPrefix(Written, 2)
    ELSE Written

\* the character in front of AfterSeparator
BeforeAfterSeparator ==
    IF HasPrefix(Written, <<Comma, Newline>>) THEN Newline
    ELSE IF out = <<>> THEN EndOfText ELSE Last(out)

Closer == IF Event.type = "MapEnd" THEN RBrace ELSE RBracket

\* C8: indentation equals depth: a map key and a list element start a line
\* with exactly d tabs, d the number of maps and lists open at that point; a
\* closing bracket that is indented stands on a line of its own after
\* exactly as many tabs as collections are open once it is closed.
C8_IndentationEqualsDepth ==
    [][Accepted =>
        /\ AddedChild =>
              /\ BeforeAfterSeparator = Newline
              /\ LeadingTabs(AfterSeparator) = Depth(events)
              /\ Len(AfterSeparator) > Depth(events)
        /\ Event.type \in {"MapEnd", "ListEnd"} =>
              \/ Written = <<Closer>>
              \/ Written = <<Newline>> \o Tabs(Depth(events')) \o <<Closer>>
      ]_vars

\* a list at depth 3 was closed after two tabs, and it held an element
\* written after three
C8_Witness ==
    /\ result = "Ok"
    /\ events /= <<>>
    /\ Last(events).type = "ListEnd"
    /\ Depth(events) = 2
    /\ events[Len(events) - 1].type = "Literal"
    /\ HasSuffix(out, <<Newline, Tab, Tab, RBracket>>)

\* C9 as claimed: ListEnd writes newline and indentation before "]" if and
\* only if the list being closed had an element (its frame was ListHasValue);
\* an empty list (frame ListInitial) is closed by "]" alone.
C9_IndentOnlyIfNonEmpty ==
    [][Accepted /\ Event.type = "ListEnd" =>
        /\ (Last(state) = "ListHasValue") <=> (Children(events) >= 1)
        /\ Written = IF Children(events) >= 1
                     THEN <<Newline>> \o Tabs(Depth(events')) \o <<RBracket>>
                     ELSE <<RBracket>>
      ]_vars

\* C9 amended: ListEnd writes newline and indentation before "]" if and only
\* if the frame enclosing the list (the top frame once the list's own frame
\* is popped) is MapHasValue or ListHasValue; that holds for every list emit
\* accepts, so an empty list too is closed by newline, indentation, "]".
C9_IndentByEnclosingFrame ==
    [][Accepted /\ Event.type = "ListEnd" =>
        /\ Last(state') \in {"MapHasValue", "ListHasValue"}
        /\ Written = <<Newline>> \o Tabs(Depth(events')) \o <<RBracket>>
      ]_vars

\* an empty list was closed, and "]" came after a newline and a tab
C9_Witness ==
    /\ result = "Ok"
    /\ Len(events) >= 2
    /\ Last(events).type = "ListEnd"
    /\ events[Len(events) - 1].type = "ListStart"
    /\ HasSuffix(out, <<Newline, Tab, RBracket>>)

\* C10: an empty collection renders alike for maps and lists: MapStart,
\* MapEnd at enclosing depth d write "{", newline, newline, d tabs, "}", and
\* ListStart, ListEnd write "[", newline, newline, d tabs, "]".
C10_EmptyCollections ==
    (result = "Ok" /\ Len(events) >= 2) =>
        LET opened == events[Len(events) - 1].type
            closed == Last(events).type
            d == Depth(events)
        IN /\ opened = "MapStart" /\ closed = "MapEnd" =>
                 HasSuffix(out, <<LBrace, Newline, Newline>> \o Tabs(d)
                                    \o <<RBrace>>)
           /\ opened = "ListStart" /\ closed = "ListEnd" =>
                 HasSuffix(out, <<LBracket, Newline, Newline>> \o Tabs(d)
                                    \o <<RBracket>>)

\* an empty list and an empty map were emitted as elements of a list
C10_Witness ==
    /\ result = "Ok"
    /\ Len(events) >= 4
    /\ Last(events).type = "MapEnd"
    /\ events[Len(events) - 1].type = "MapStart"
    /\ events[Len(events) - 2].type = "ListEnd"
    /\ events[Len(events) - 3].type = "ListStart"
    /\ Depth(events) = 2

\* the key text of a MapKey step: what it wrote after its separator and
\* its indentation
KeyText == DropPrefix(AfterSeparator, LeadingTabs(AfterSeparator))

\* C11: a MapKey event is always written as a double-quoted, escaped string
\* followed by colon and space, whatever Value variant it carries.
C11_KeyIsQuotedString ==
    [][Accepted /\ Event.type = "MapKey" =>
        /\ Len(KeyText) >= 4
        /\ KeyText[1] = Quote
        /\ HasSuffix(KeyText, <<Quote, Colon, Space>>)
        /\ Event.value.tag = "String" =>
              KeyText = <<Quote>> \o escape_string(Event.value.s)
                            \o <<Quote, Colon, Space>>
      ]_vars

----------------------------------------------------------------------------
(* escape_string on its own: it is called once on a string of at most      *)
(* MaxStringLen characters of EscapeAlphabet.                              *)

\* control characters with and without a short escape, the two characters
\* that are escaped by a backslash, and characters that need no escape
\* (among them the letters of the short escapes and a non-ASCII character)
EscapeAlphabet == {0, Tab, Newline, CarriageReturn, 31, Quote, Backslash,
                   97, 110, 117, 233}

Strings(alphabet, max_len) ==
    UNION {[1..n -> alphabet] : n \in 0..max_len}

InitEscape ==
    /\ JsonDumper_new
    /\ unescaped \in Strings(EscapeAlphabet, MaxStringLen)
    /\ escaped = <<>>
    /\ NoTokenizer

\* let escaped = escape_string(s)
EscapeString ==
    /\ escaped = <<>>
    /\ escaped' = <<escape_string(unescaped)>>
    /\ UNCHANGED <<dumper_vars, unescaped, tokenizer_vars>>

NextEscape == EscapeString

SpecEscape == InitEscape /\ [][NextEscape]_vars

----------------------------------------------------------------------------
(* loadum_yaml::token.  A run of one advance call is a record t: the       *)
(* scanner's text and cursor, the Tokenizer's fields, and whether the call *)
(* panicked.  Offsets count bytes; the sources drawn are ASCII, where a    *)
(* byte offset is a character index.                                       *)

Token == {"Initial", "StringDoubleQuoted", "StringSingleQuoted",
          "StringPlain", "EOF"}

\* char::is_whitespace, for the characters below U+0100
is_whitespace(c) == c \in (9..13) \cup {32, 133, 160}

\* Scanner::done
done(t) == t.cursor = Len(t.source)

\* Pattern::matches on Scanner::after: the text at the cursor starts with pat
matches(t, pat) ==
    /\ t.cursor + Len(pat) <= Len(t.source)
    /\ SubSeq(t.source, t.cursor + 1, t.cursor + Len(pat)) = pat

\* Scanner::eat_whitespace
RECURSIVE eat_whitespace(_)
eat_whitespace(t) ==
    IF ~done(t) /\ is_whitespace(t.source[t.cursor + 1])
    THEN eat_whitespace([t EXCEPT !.cursor = @ + 1])
    ELSE t

\* Scanner::eat_until: eat characters until pat is at the cursor or the text
\* is at its end
RECURSIVE eat_until(_, _)
eat_until(t, pat) ==
    IF ~done(t) /\ ~matches(t, pat)
    THEN eat_until([t EXCEPT !.cursor = @ + 1], pat)
    ELSE t

\* Scanner::expect: eat pat, or panic if it is not at the cursor
expect(t, pat) ==
    IF matches(t, pat) THEN [t EXCEPT !.cursor = @ + Len(pat)]
    ELSE [t EXCEPT !.panic = TRUE]

\* advance that at the end of the text sets the scanner back to its start
advance_eof_rewinding(t) == [t EXCEPT !.current = "EOF", !.cursor = 0]

\* advance where eat() returned None
advance_eof(t) == [t EXCEPT !.current = "EOF"]

\* advance whose plain token ends at a colon, whatever follows it
advance_token_until_colon(t) ==
    LET c == t.source[t.cursor + 1]
        eaten == [t EXCEPT !.cursor = @ + 1]
        token ==
            IF c = Quote
            THEN expect(eat_until([eaten EXCEPT !.current = "StringDoubleQuoted"],
                                  <<Quote>>), <<Quote>>)
            ELSE IF c = Apostrophe
            THEN expect(eat_until([eaten EXCEPT !.current = "StringSingleQuoted"],
                                  <<Apostrophe>>), <<Apostrophe>>)
            ELSE eat_until([eaten EXCEPT !.current = "StringPlain"], <<Colon>>)
    IN IF token.panic THEN token ELSE [token EXCEPT !.end = token.cursor]

\* advance where eat() returned Some(c): the match on c and self.end
advance_token(t) ==
    LET c == t.source[t.cursor + 1]
        eaten == [t EXCEPT !.cursor = @ + 1]
        token ==
            IF c = Quote
            THEN expect(eat_until([eaten EXCEPT !.current = "StringDoubleQuoted"],
                                  <<Quote>>), <<Quote>>)
            ELSE IF c = Apostrophe
            THEN expect(eat_until([eaten EXCEPT !.current = "StringSingleQuoted"],
                                  <<Apostrophe>>), <<Apostrophe>>)
            ELSE eat_until([eaten EXCEPT !.current = "StringPlain"],
                           <<Colon, Space>>)
    IN IF token.panic THEN token ELSE [token EXCEPT !.end = token.cursor]

\* Tokenizer::advance
advance(t) ==
    LET skipped == eat_whitespace(t)
        started == [skipped EXCEPT !.start = skipped.cursor]
    IN IF done(started) THEN advance_eof(started) ELSE advance_token(started)

\* Tokenizer::current_str: scanner.get(start..end)
current_str == SubSeq(source, start + 1, end)

\* quotes, the backslash, colon and space, and a letter
SourceAlphabet == {Quote, Apostrophe, Backslash, Colon, Space, 97}

\* Tokenizer::new on a source of at most MaxSourceLen characters
InitTokenizer ==
    /\ JsonDumper_new
    /\ NoEscape
    /\ source \in Strings(SourceAlphabet, MaxSourceLen)
    /\ cursor = 0
    /\ start = 0
    /\ end = 0
    /\ current = "Initial"
    /\ outcome = "None"
    /\ advances = 0

\* one call of advance; a panic ends the run
Advance ==
    /\ outcome /= "Panic"
    /\ advances < MaxAdvances
    /\ LET t == advance([source |-> source, cursor |-> cursor,
                         start |-> start, end |-> end, current |-> current,
                         panic |-> FALSE])
       IN /\ cursor' = t.cursor
          /\ start' = t.start
          /\ end' = t.end
          /\ current' = t.current
          /\ outcome' = IF t.panic THEN "Panic" ELSE "Ok"
    /\ advances' = advances + 1
    /\ UNCHANGED <<dumper_vars, escape_vars, source>>

NextTokenizer == Advance

SpecTokenizer == InitTokenizer /\ [][NextTokenizer]_vars

----------------------------------------------------------------------------
(* The standard unescaping of the body of a JSON string (RFC 8259,         *)
(* section 7): a raw control character or a raw quote cannot be decoded,   *)
(* a backslash starts a short escape or \u and four hex digits.            *)

Undecodable == <<0 - 1>>

HexValue(c) ==
    IF IsDigit(c) THEN c - 48 ELSE IF c >= 97 THEN c - 87 ELSE c - 55

\* the character a short escape stands for: \" \\ \/ \b \f \n \r \t
ShortEscape(e) ==
    CASE e = 34 -> 34
      [] e = 92 -> 92
      [] e = 47 -> 47
      [] e = 98 -> 8
      [] e = 102 -> 12
      [] e = 110 -> 10
      [] e = 114 -> 13
      [] e = 116 -> 9
      [] OTHER -> 0 - 1

Decoded(c, rest) == IF rest = Undecodable THEN Undecodable ELSE <<c>> \o rest

RECURSIVE JsonUnescapeFrom(_, _)
JsonUnescapeFrom(t, i) ==
    IF i > Len(t) THEN <<>>
    ELSE IF IsControl(t[i]) \/ t[i] = Quote THEN Undecodable
    ELSE IF t[i] /= Backslash THEN Decoded(t[i], JsonUnescapeFrom(t, i + 1))
    ELSE IF At(t, i + 1) = 117
    THEN IF \A j \in 2..5 : IsHexDigit(At(t, i + j))
         THEN Decoded(4096 * HexValue(t[i + 2]) + 256 * HexValue(t[i + 3])
                          + 16 * HexValue(t[i + 4]) + HexValue(t[i + 5]),
                      JsonUnescapeFrom(t, i + 6))
         ELSE Undecodable
    ELSE IF ShortEscape(At(t, i + 1)) >= 0
    THEN Decoded(ShortEscape(t[i + 1]), JsonUnescapeFrom(t, i + 2))
    ELSE Undecodable

JsonUnescape(t) == JsonUnescapeFrom(t, 1)

\* the number of backslashes that stand directly in front of position i
RECURSIVE BackslashesBefore(_, _)
BackslashesBefore(t, i) ==
    IF i > 1 /\ t[i - 1] = Backslash THEN 1 + BackslashesBefore(t, i - 1)
    ELSE 0

\* C12: escaping round-trips: unescaping escape_string(s) by the JSON rules
\* yields exactly s, and escape_string(s) holds no raw control character
\* and no quote that is not escaped.
C12_EscapeRoundTrips ==
    escaped /= <<>> =>
        LET e == escaped[1]
        IN /\ JsonUnescape(e) = unescaped
           /\ \A i \in 1..Len(e) :
                 /\ ~IsControl(e[i])
                 /\ e[i] = Quote => BackslashesBefore(e, i) % 2 = 1

\* U+001F, a quote and a backslash were escaped to \u001f\"\\
C12_Witness ==
    /\ unescaped = <<31, Quote, Backslash>>
    /\ escaped = << <<92, 117, 48, 48, 49, 102, 92, 34, 92, 92>> >>

\* the digits of lowercase hexadecimal
LowerHex == <<48, 49, 50, 51, 52, 53, 54, 55, 56, 57,
              97, 98, 99, 100, 101, 102>>

\* the mapping of one character as C13 states it
ClaimedEscape(c) ==
    CASE c = 34 -> <<92, 34>>
      [] c = 92 -> <<92, 92>>
      [] c = 9 -> <<92, 116>>
      [] c = 10 -> <<92, 110>>
      [] c = 13 -> <<92, 114>>
      [] c \in (0..31) \ {9, 10, 13} ->
            <<92, 117, 48, 48, LowerHex[(c \div 16) + 1], LowerHex[(c % 16) + 1]>>
      [] OTHER -> <<c>>

RECURSIVE ClaimedEscapes(_)
ClaimedEscapes(t) ==
    IF t = <<>> THEN <<>> ELSE ClaimedEscape(t[1]) \o ClaimedEscapes(Tail(t))

NeedsNoEscape(t) == \A i \in 1..Len(t) : t[i] \notin (0..31) \cup {34, 92}

\* C13: escape_string maps character by character: quote and backslash get
\* a backslash in front, tab, newline and carriage return become \t, \n,
\* \r, every other character of U+0000..U+001F becomes \u and its four
\* lowercase hex digits, every other character is copied; a string without
\* any of these is returned as it is.
C13_PerCharacterMapping ==
    escaped /= <<>> =>
        /\ escaped[1] = ClaimedEscapes(unescaped)
        /\ NeedsNoEscape(unescaped) => escaped[1] = unescaped

\* a tab, U+0000 and a letter became \t, \u0000 and the letter
C13_Witness ==
    /\ unescaped = <<Tab, 0, 97>>
    /\ escaped = << <<92, 116, 92, 117, 48, 48, 48, 48, 97>> >>

\* C15: the empty document: DocumentStart directly followed by DocumentEnd
\* ends alike wherever DocumentStart is accepted, on a fresh dumper or
\* after complete documents: both events are accepted, neither writes a
\* byte, and the dumper is back in state Initial.
C15_EmptyDocument ==
    [][/\ (Accepted /\ Event.type = "DocumentStart") => out' = out
       /\ (/\ result = "Ok"
           /\ events /= <<>>
           /\ Last(events).type = "DocumentStart"
           /\ Event.type = "DocumentEnd")
              => /\ Accepted
                 /\ out' = out
                 /\ state' = <<"Initial">>
                 /\ indentation_level' = 0
      ]_vars

\* an empty document was emitted after a document that holds a map
C15_Witness ==
    /\ result = "Ok"
    /\ Len(events) >= 6
    /\ Last(events).type = "DocumentEnd"
    /\ events[Len(events) - 1].type = "DocumentStart"
    /\ events[Len(events) - 2].type = "DocumentEnd"
    /\ out = <<LBrace, Newline, Newline, RBrace>>
    /\ state = <<"Initial">>

----------------------------------------------------------------------------
(* Claims about a sink that may fail, under SpecIO. *)

\* the same call of emit on a sink that takes every write
OnSoundSink(wrap) ==
    emit([state |-> state, indentation_level |-> indentation_level,
          out |-> out, budget |-> Unlimited, wrap |-> wrap,
          err |-> FALSE, panic |-> FALSE, huge |-> FALSE], Event)

\* C14: sink failures propagate: a call of emit in which a write to the
\* sink fails returns Err (it neither aborts nor retries), writes nothing
\* after the failed write, and leaves what was written in place.  A write
\* failed exactly if the sink holds less than the same call leaves on a
\* sink that takes every write.
C14_SinkFailuresPropagate ==
    [][events' /= events =>
        \E wrap \in BOOLEAN :
            LET sound == OnSoundSink(wrap)
            IN /\ HasPrefix(out', out)
               /\ sound.huge => result' = "Err"
               /\ ~sound.huge =>
                     /\ HasPrefix(sound.out, out')
                     /\ (out' /= sound.out) <=> (result' = "Err")
      ]_vars

\* the sink failed in the middle of a key: the tab and the opening quote are
\* written, the rest of the key is not
C14_Witness ==
    /\ result = "Err"
    /\ events /= <<>>
    /\ Last(events).type = "MapKey"
    /\ out = <<LBrace, Newline, Tab, Quote>>

----------------------------------------------------------------------------
(* Claims about the Tokenizer, under SpecTokenizer.  The spans the claims  *)
(* state are computed from the source text as sets of offsets.             *)

Min(S) == CHOOSE x \in S : \A y \in S : x <= y

\* the step is a call of advance
Advanced == advances' /= advances

\* the offset of the first character at or after the cursor that is not
\* whitespace, or the length of the source if there is none
TokenStart ==
    Min({i \in cursor..Len(source) :
            i = Len(source) \/ ~is_whitespace(source[i + 1])})

\* the token to read starts with character c
StartsWith(c) == TokenStart < Len(source) /\ source[TokenStart + 1] = c

\* the offsets after the opening quote q where a q stands
Quotes(q) == {j \in (TokenStart + 1)..(Len(source) - 1) : source[j + 1] = q}

\* those of them that no backslash precedes
UnescapedQuotes(q) == {j \in Quotes(q) : source[j] /= Backslash}

QuotedSpan(q, token) ==
    (StartsWith(q) /\ UnescapedQuotes(q) /= {}) =>
        /\ outcome' = "Ok"
        /\ current' = token
        /\ start' = TokenStart
        /\ end' = Min(UnescapedQuotes(q)) + 1

\* C16: a token that starts with '"' is classified StringDoubleQuoted and
\* spans from the opening quote up to and including the first following
\* '"' that no backslash precedes; a token that starts with "'" likewise,
\* as StringSingleQuoted.
C16_QuotedSpans ==
    [][Advanced => /\ QuotedSpan(Quote, "StringDoubleQuoted")
                   /\ QuotedSpan(Apostrophe, "StringSingleQuoted")]_vars

\* the offset of the first colon-space after the token's first character,
\* or the length of the source if there is none
PlainEnd ==
    LET found == {j \in (TokenStart + 1)..(Len(source) - 2) :
                     source[j + 1] = Colon /\ source[j + 2] = Space}
    IN IF found = {} THEN Len(source) ELSE Min(found)

\* C17: a token whose first character is neither '"' nor "'" is classified
\* StringPlain; its span starts at that character and ends just before the
\* first following colon-space, or at the end of the input if there is
\* none, whitespace inside and at its end included.
C17_PlainSpan ==
    [][(/\ Advanced
        /\ TokenStart < Len(source)
        /\ source[TokenStart + 1] \notin {Quote, Apostrophe})
           => /\ outcome' = "Ok"
              /\ current' = "StringPlain"
              /\ start' = TokenStart
              /\ end' = PlainEnd
              /\ cursor' = PlainEnd
      ]_vars

\* "a a: " was read: one plain token "a a" that holds a space and ends
\* before the colon-space
C17_Witness ==
    /\ source = <<97, Space, 97, Colon, Space>>
    /\ outcome = "Ok"
    /\ advances = 1
    /\ current = "StringPlain"
    /\ start = 0
    /\ end = 3
    /\ current_str = <<97, Space, 97>>

\* C18: EOF is terminal and idempotent: once the classification is EOF,
\* every further advance returns Ok and leaves classification, start, end
\* and cursor as they were.
C18_EofIsTerminal ==
    [][(Advanced /\ current = "EOF")
           => /\ outcome' = "Ok"
              /\ current' = "EOF"
              /\ start' = start
              /\ end' = end
              /\ cursor' = cursor
      ]_vars

\* advance was called twice more after the one that reached the end of
\* '"a"'
C18_Witness ==
    /\ source = <<Quote, 97, Quote>>
    /\ advances = 4
    /\ outcome = "Ok"
    /\ current = "EOF"
    /\ cursor = 3

\* C19: malformed quoting is a recoverable error: when the source ends
\* before the closing quote of a double- or single-quoted token, advance
\* returns Err; it neither aborts nor returns Ok.
C19_UnterminatedQuoteIsErr ==
    [][\A q \in {Quote, Apostrophe} :
          (Advanced /\ StartsWith(q) /\ Quotes(q) = {}) => outcome' = "Err"
      ]_vars

\* C20: the EOF token has an empty span at the end of the input: when
\* advance yields EOF, start and end equal the length of the source and
\* current_str is empty; after every advance start <= end <= length of the
\* source.
C20_EofSpanAtEnd ==
    outcome = "Ok" =>
        /\ current = "EOF" =>
              /\ start = Len(source)
              /\ end = Len(source)
              /\ current_str = <<>>
        /\ start <= end
        /\ end <= Len(source)

----------------------------------------------------------------------------
(* Claims about the dumper's frame stack and its indentation counter,      *)
(* under Spec.                                                             *)

ListFrames == {"ListInitial", "ListHasValue"}

\* C21: the shape of the frame stack: after every emit that returned Ok the
\* stack is not empty, its bottom frame is Initial, the frame above it (if
\* any) is WantMapping, every frame above that is a map or list frame, and
\* every map or list frame below the top is MapHasValue or ListHasValue.
C21_FrameStackShape ==
    result = "Ok" =>
        /\ state /= <<>>
        /\ state[1] = "Initial"
        /\ Len(state) >= 2 => state[2] = "WantMapping"
        /\ \A i \in 3..Len(state) : state[i] \in MapFrames \cup ListFrames
        /\ \A i \in 3..(Len(state) - 1) :
              state[i] \in {"MapHasValue", "ListHasValue"}

\* a map that holds a list that holds a list that holds a map whose first
\* key was written
C21_Witness ==
    /\ result = "Ok"
    /\ state = <<"Initial", "WantMapping", "MapHasValue", "ListHasValue",
                 "ListHasValue", "MapHasKey">>

\* the number of map and list frames on the stack
CollectionFrames(frames) ==
    Cardinality({i \in 1..Len(frames) : frames[i] \in MapFrames \cup ListFrames})

\* C22: the depth counter: in every state reached by emit calls of which
\* none was rejected (and no sink write failed), indentation_level is the
\* number of map and list frames on the stack, that is the stack length
\* minus 2 inside a document and 0 outside; the counter never drops below
\* zero.
C22_LevelCountsFrames ==
    result /= "Panic" =>
        /\ indentation_level = CollectionFrames(state)
        /\ indentation_level = IF Len(state) >= 2 THEN Len(state) - 2 ELSE 0
        /\ indentation_level >= 0

\* three collections were opened and two of them are closed again
C22_Witness ==
    /\ result = "Ok"
    /\ Len(events) >= 2
    /\ Last(events).type = "MapEnd"
    /\ events[Len(events) - 1].type = "ListEnd"
    /\ state = <<"Initial", "WantMapping", "MapHasValue">>
    /\ indentation_level = 1

----------------------------------------------------------------------------
(* Progress of the Tokenizer, under SpecTokenizer. *)

\* the offset of the first character at or after offset i that is not
\* whitespace, or the length of the source
SkipFrom(i) ==
    Min({j \in i..Len(source) :
            j = Len(source) \/ ~is_whitespace(source[j + 1])})

\* every quoted token of the source from offset i on has its closing quote:
\* the source is read token by token as C16 and C17 state the spans
RECURSIVE QuotesTerminatedFrom(_)
QuotesTerminatedFrom(i) ==
    LET first == SkipFrom(i)
        q == source[first + 1]
        closing == {j \in (first + 1)..(Len(source) - 1) :
                       source[j + 1] = q /\ source[j] /= Backslash}
        found == {j \in (first + 1)..(Len(source) - 2) :
                     source[j + 1] = Colon /\ source[j + 2] = Space}
    IN IF first = Len(source) THEN TRUE
       ELSE IF q \in {Quote, Apostrophe}
       THEN closing /= {} /\ QuotesTerminatedFrom(Min(closing) + 1)
       ELSE QuotesTerminatedFrom(IF found = {} THEN Len(source) ELSE Min(found))

\* C23: progress and termination: every advance that returns with a
\* classification other than EOF has moved the cursor forward by at least
\* one character and left a non-empty span that starts at or after the end
\* of the span before; and on a source whose quotes are all terminated
\* every advance returns, and the classification is EOF after at most
\* length of the source + 1 calls.
C23_ProgressAndTermination ==
    [][Advanced =>
        /\ (outcome' = "Ok" /\ current' /= "EOF") =>
              /\ cursor' >= cursor + 1
              /\ start' < end'
              /\ start' >= end
        /\ QuotesTerminatedFrom(0) =>
              /\ outcome' = "Ok"
              /\ advances' >= Len(source) + 1 => current' = "EOF"
      ]_vars

====
